---- MODULE Spec2Model ----
(***************************************************************************)
(* A model of the <tpen-line-history> custom element                       *)
(* (src/tpen-line-history.js): the field extractors, the timestamp sort,   *)
(* render(), and the asynchronous handleLineChange / fetchLineHistory      *)
(* pipeline with its interleavings.                                        *)
(***************************************************************************)
EXTENDS Integers, Sequences, FiniteSets, TLC

VARIABLES
    currentLine,        \* this.currentLine
    historyData,        \* this.historyData (a sequence of records)
    rerumHistoryData,   \* this.rerumHistoryData: 0 (null) or an index into handles
    historyGraph,       \* this.historyGraph
    shadow,             \* this.shadowRoot.innerHTML, as the list of rendered entries
    handles,            \* every RerumHistoryData instance constructed so far
    calls,              \* every handleLineChange invocation so far
    connection,         \* the element's place in its lifecycle
    arg,                \* the argument of the last direct call of a pure method
    result              \* what that call returned

vars == <<currentLine, historyData, rerumHistoryData, historyGraph, shadow,
          handles, calls, connection, arg, result>>

(***************************************************************************)
(* JavaScript values.  A string is its sequence of characters.             *)
(***************************************************************************)
Undefined == [type |-> "undefined"]
Null == [type |-> "null"]
NaN == [type |-> "NaN"]
Str(s) == [type |-> "string", chars |-> s]
Num(n) == [type |-> "number", num |-> n]
Bool(b) == [type |-> "boolean", bool |-> b]
Obj(p) == [type |-> "object", props |-> p]
Arr(a) == [type |-> "array", items |-> a]
Throw(e) == [type |-> "throw", error |-> e]
NoProps == [k \in {} |-> Undefined]

\* o.k, also for a primitive o (undefined) and, as o?.k, for a nullish o
Get(o, k) ==
    IF o.type = "object" /\ k \in DOMAIN o.props THEN o.props[k] ELSE Undefined

\* the object o with o.k = v; a property holding undefined reads like an absent one
With(o, k, v) ==
    IF v = Undefined THEN o ELSE Obj((k :> v) @@ o.props)

\* Boolean(v)
Truthy(v) ==
    CASE v.type \in {"undefined", "null", "NaN"} -> FALSE
      [] v.type = "string" -> v.chars # <<>>
      [] v.type = "number" -> v.num # 0
      [] v.type = "boolean" -> v.bool
      [] OTHER -> TRUE

\* a ?? b
Coalesce(a, b) == IF a.type \in {"undefined", "null"} THEN b ELSE a

\* a || b
OrElse(a, b) == IF Truthy(a) THEN a ELSE b

Digit == {"0", "1", "2", "3", "4", "5", "6", "7", "8", "9"}

DigitValue(c) ==
    CASE c = "0" -> 0 [] c = "1" -> 1 [] c = "2" -> 2 [] c = "3" -> 3
      [] c = "4" -> 4 [] c = "5" -> 5 [] c = "6" -> 6 [] c = "7" -> 7
      [] c = "8" -> 8 [] c = "9" -> 9

\* parseInt(s) of a non-empty run of decimal digits
RECURSIVE parseInt(_)
parseInt(s) ==
    IF s = <<>> THEN 0
    ELSE 10 * parseInt(SubSeq(s, 1, Len(s) - 1)) + DigitValue(s[Len(s)])

(***************************************************************************)
(* getTimestamp                                                            *)
(***************************************************************************)
IsoDayPrefix == <<"1", "9", "7", "0", "-", "0", "1", "-">>

\* new Date(s).getTime() for the date-only strings 1970-01-DD; any other string
\* of the input sets is no date (NaN)
DayToTime(day) == IF day \in 1..31 THEN Num((day - 1) * 86400000) ELSE NaN

DateGetTime(s) ==
    IF /\ Len(s) = 10
       /\ SubSeq(s, 1, 8) = IsoDayPrefix
       /\ s[9] \in Digit /\ s[10] \in Digit
    THEN DayToTime(parseInt(SubSeq(s, 9, 10)))
    ELSE NaN

\* the callback of timestamps.map
NullIfNaN(t) == IF t = NaN THEN Null ELSE t

MapTimestamp(ts) ==
    CASE ts.type = "string" -> NullIfNaN(DateGetTime(ts.chars))
      [] ts.type = "number" -> ts
      [] OTHER -> Null

Max2(a, b) == IF a >= b THEN a ELSE b

RECURSIVE MaxOf(_)
MaxOf(s) == IF Len(s) = 1 THEN s[1] ELSE Max2(s[1], MaxOf(Tail(s)))

MapAll(s) == [i \in 1..Len(s) |-> MapTimestamp(s[i])]

NumbersOf(s) == [i \in 1..Len(s) |-> s[i].num]

\* timestamps.length > 0 ? Math.max(...timestamps) : 0
MaxOrZero(timestamps) == IF Len(timestamps) > 0 THEN MaxOf(timestamps) ELSE 0

getTimestamp(line) ==
    LET rerum == Get(line, "__rerum")
        createdAt ==
            Coalesce(Coalesce(Coalesce(Coalesce(Get(rerum, "createdAt"),
                Get(line, "createdAt")), Get(line, "modified")),
                Get(line, "created")), Get(line, "timestamp"))
        isOverwritten ==
            Coalesce(Get(rerum, "isOverwritten"), Get(line, "isOverwritten"))
    IN MaxOrZero(NumbersOf(SelectSeq(MapAll(SelectSeq(<<createdAt, isOverwritten>>, Truthy)),
                                     LAMBDA t : t # Null)))

(***************************************************************************)
(* getLineText                                                             *)
(***************************************************************************)
\* the for-of loop over an array body: the first item whose value is truthy
RECURSIVE FirstBodyValue(_)
FirstBodyValue(items) ==
    IF items = <<>> THEN Undefined
    ELSE IF Truthy(Get(items[1], "value")) THEN Get(items[1], "value")
    ELSE FirstBodyValue(Tail(items))

\* the fall-through return of getLineText
TextFallback(line) ==
    Coalesce(Coalesce(Coalesce(Coalesce(Get(line, "text"), Get(line, "content")),
        Get(line, "cnt:chars")), Get(line, "value")), Str(<<>>))

\* the text a truthy body gives, or undefined when it gives none
BodyText(body) ==
    CASE body.type = "object" -> OrElse(Get(body, "value"), Undefined)
      [] body.type = "array" -> FirstBodyValue(body.items)
      [] body.type = "string" -> body
      [] OTHER -> Undefined

TextOr(bodyText, line) == IF bodyText # Undefined THEN bodyText ELSE TextFallback(line)

getLineText(line) ==
    IF ~Truthy(Get(line, "body")) THEN TextFallback(line)
    ELSE TextOr(BodyText(Get(line, "body")), line)

(***************************************************************************)
(* getLineBounding                                                         *)
(***************************************************************************)
HasAt(s, i, lit) ==
    i + Len(lit) - 1 <= Len(s) /\ SubSeq(s, i, i + Len(lit) - 1) = lit

\* the index after the longest run of digits that starts at i
RECURSIVE DigitRunEnd(_, _)
DigitRunEnd(s, i) ==
    IF i <= Len(s) /\ s[i] \in Digit THEN DigitRunEnd(s, i + 1) ELSE i

\* the run of digits at index q and the index after it, or <<>> without a digit
DigitGroup(s, q, e) == IF e > q THEN <<SubSeq(s, q, e - 1), e>> ELSE <<>>

\* (\d+) at index q
Group(s, q) == DigitGroup(s, q, DigitRunEnd(s, q))

\* ,(\d+) after the groups matched so far
CommaGroup(s, sofar, g) ==
    IF g = <<>> THEN <<>> ELSE <<Append(sofar[1], g[1]), g[2]>>

NextGroup(s, sofar) ==
    IF sofar = <<>> \/ ~HasAt(s, sofar[2], <<",">>) THEN <<>>
    ELSE CommaGroup(s, sofar, Group(s, sofar[2] + 1))

FirstGroup(g) == IF g = <<>> THEN <<>> ELSE <<<<g[1]>>, g[2]>>

GroupsOf(m) == IF m = <<>> THEN <<>> ELSE m[1]

\* (\d+),(\d+),(\d+),(\d+) from index q: the four groups, or <<>>
MatchGroups(s, q) ==
    GroupsOf(NextGroup(s, NextGroup(s, NextGroup(s, FirstGroup(Group(s, q))))))

\* the match with the unit taken, or else without it
Either(m1, m2) == IF m1 # <<>> THEN m1 ELSE m2

\* xywh=(?:pixel:)?(\d+),(\d+),(\d+),(\d+) anchored at index i
MatchAt(s, i) ==
    IF ~HasAt(s, i, <<"x", "y", "w", "h", "=">>) THEN <<>>
    ELSE IF HasAt(s, i + 5, <<"p", "i", "x", "e", "l", ":">>)
         THEN Either(MatchGroups(s, i + 11), MatchGroups(s, i + 5))
    ELSE MatchGroups(s, i + 5)

\* String.prototype.match with the (unanchored) pattern: the leftmost match
RECURSIVE MatchFrom(_, _)
MatchFrom(s, i) ==
    IF i > Len(s) THEN <<>> ELSE Either(MatchAt(s, i), MatchFrom(s, i + 1))

xywhMatch(s) == MatchFrom(s, 1)

Rect(x, y, width, height) ==
    Obj([x |-> x, y |-> y, width |-> width, height |-> height])

\* the direct x / y / width|w / height|h properties
FlatDefined(line) ==
    /\ Get(line, "x") # Undefined
    /\ Get(line, "y") # Undefined
    /\ (Get(line, "width") # Undefined \/ Get(line, "w") # Undefined)
    /\ (Get(line, "height") # Undefined \/ Get(line, "h") # Undefined)

FlatBounding(line) ==
    IF FlatDefined(line)
    THEN Rect(Get(line, "x"), Get(line, "y"),
              Coalesce(Get(line, "width"), Get(line, "w")),
              Coalesce(Get(line, "height"), Get(line, "h")))
    ELSE Null

SelectorValue(line) ==
    Get(Get(Coalesce(Get(line, "target"), Get(line, "on")), "selector"), "value")

\* the rectangle of a match, or the direct properties without a match
MatchedOrFlat(match, line) ==
    IF match # <<>>
    THEN Rect(Num(parseInt(match[1])), Num(parseInt(match[2])),
              Num(parseInt(match[3])), Num(parseInt(match[4])))
    ELSE FlatBounding(line)

BoundingOf(value, line) ==
    IF ~Truthy(value) THEN FlatBounding(line)
    ELSE IF value.type # "string" THEN Throw("TypeError")  \* value.match is not a function
    ELSE MatchedOrFlat(xywhMatch(value.chars), line)

getLineBounding(line) == BoundingOf(SelectorValue(line), line)

\* boundingChanged(box1, box2)
boundingChanged(box1, box2) ==
    IF ~Truthy(box1) /\ ~Truthy(box2) THEN FALSE
    ELSE IF ~Truthy(box1) \/ ~Truthy(box2) THEN TRUE
    ELSE \/ Get(box1, "x") # Get(box2, "x")
         \/ Get(box1, "y") # Get(box2, "y")
         \/ Get(box1, "width") # Get(box2, "width")
         \/ Get(box1, "height") # Get(box2, "height")


(***************************************************************************)
(* The sort of fetchLineHistory                                            *)
(***************************************************************************)
\* the comparator (a, b) => timestampB - timestampA
compareTimestamps(a, b) == getTimestamp(b) - getTimestamp(a)

\* as InsertSorted, with r put before the elements it compares equal to
RECURSIVE InsertSortedUnstable(_, _)
InsertSortedUnstable(sorted, r) ==
    IF sorted = <<>> THEN <<r>>
    ELSE IF compareTimestamps(sorted[1], r) >= 0 THEN <<r>> \o sorted
    ELSE <<sorted[1]>> \o InsertSortedUnstable(Tail(sorted), r)

\* r put behind every element that does not compare after it
RECURSIVE InsertSorted(_, _)
InsertSorted(sorted, r) ==
    IF sorted = <<>> THEN <<r>>
    ELSE IF compareTimestamps(sorted[1], r) > 0 THEN <<r>> \o sorted
    ELSE <<sorted[1]>> \o InsertSorted(Tail(sorted), r)

\* Array.prototype.sort with that comparator: a stable sort
RECURSIVE sortByTimestamp(_)
sortByTimestamp(items) ==
    IF items = <<>> THEN <<>>
    ELSE InsertSorted(sortByTimestamp(SubSeq(items, 1, Len(items) - 1)),
                      items[Len(items)])

(***************************************************************************)
(* render                                                                  *)
(***************************************************************************)
DigitChar(n) ==
    CASE n = 0 -> "0" [] n = 1 -> "1" [] n = 2 -> "2" [] n = 3 -> "3"
      [] n = 4 -> "4" [] n = 5 -> "5" [] n = 6 -> "6" [] n = 7 -> "7"
      [] n = 8 -> "8" [] n = 9 -> "9"

\* String(n) of a natural number
RECURSIVE NatToChars(_)
NatToChars(n) ==
    IF n < 10 THEN <<DigitChar(n)>>
    ELSE NatToChars(n \div 10) \o <<DigitChar(n % 10)>>

\* item['@id'] ?? item.id ?? item._id
lineId(item) ==
    Coalesce(Coalesce(Get(item, "@id"), Get(item, "id")), Get(item, "_id"))

\* ... ?? `version-${index}`, index the 0-based position in historyData
versionId(item, index) ==
    Coalesce(lineId(item),
             Str(<<"v", "e", "r", "s", "i", "o", "n", "-">> \o NatToChars(index)))

\* s.split('/').pop()
RECURSIVE LastSegment(_)
LastSegment(s) ==
    IF s = <<>> \/ s[Len(s)] = "/" THEN <<>>
    ELSE LastSegment(SubSeq(s, 1, Len(s) - 1)) \o <<s[Len(s)]>>

\* versionId.includes('/') ? versionId.split('/').pop() : versionId
shortId(id) ==
    CASE id.type = "string" -> Str(LastSegment(id.chars))
      [] id.type = "array" -> id
      [] OTHER -> Throw("TypeError")  \* versionId.includes is not a function

\* the <li> built from what the callback has computed
ItemView(item, index, length, bounding, prevBounding, id, short, flagged) ==
    IF bounding.type = "throw" THEN bounding
    ELSE IF prevBounding.type = "throw" THEN prevBounding
    ELSE IF short.type = "throw" THEN short
    ELSE [type |-> "history-item",
          item |-> item,
          text |-> getLineText(item),
          bounding |-> bounding,
          timestamp |-> getTimestamp(item),
          isLatest |-> index = 0,
          changed |-> flagged,
          versionId |-> id,
          shortId |-> short,
          versionNumber |-> length - index]

\* as changedIndicator, without the "&& !isLatest"
changedIndicatorNoLatestGuard(bounding, prevBounding, isLatest) ==
    Truthy(bounding) /\ boundingChanged(bounding, prevBounding)

\* boundingHtml holds the CHANGED indicator
changedIndicator(bounding, prevBounding, isLatest) ==
    Truthy(bounding) /\ boundingChanged(bounding, prevBounding) /\ ~isLatest

ItemOf(item, index, length, bounding, prevBounding) ==
    ItemView(item, index, length, bounding, prevBounding, versionId(item, index),
             shortId(versionId(item, index)),
             bounding.type # "throw" /\ prevBounding.type # "throw"
                 /\ changedIndicator(bounding, prevBounding, index = 0))

\* one <li> of the history list: the callback of historyData.map
historyItem(history, i) ==
    ItemOf(history[i], i - 1, Len(history), getLineBounding(history[i]),
           IF i < Len(history) THEN getLineBounding(history[i + 1]) ELSE Null)

Placeholder == [type |-> "no-line"]

\* the list, or the first exception thrown while it was built
ListOrThrow(items) ==
    IF \E i \in 1..Len(items) : items[i].type = "throw"
    THEN items[CHOOSE i \in 1..Len(items) :
                  /\ items[i].type = "throw"
                  /\ \A j \in 1..(i - 1) : items[j].type # "throw"]
    ELSE [type |-> "history-list", items |-> items]

\* what render() assigns to shadowRoot.innerHTML, or the exception it throws
render(line, history) ==
    IF ~Truthy(line) \/ Len(history) = 0 THEN Placeholder
    ELSE ListOrThrow([i \in 1..Len(history) |-> historyItem(history, i)])

(***************************************************************************)
(* The component's fields after construction                               *)
(***************************************************************************)
Blank == [type |-> "blank"]
NotCalled == [fn |-> "none"]

Constructed ==
    /\ currentLine = Null
    /\ historyData = <<>>
    /\ rerumHistoryData = 0
    /\ historyGraph = Null
    /\ shadow = Blank
    /\ handles = <<>>
    /\ calls = <<>>
    /\ connection = "constructed"

component == <<currentLine, historyData, rerumHistoryData, historyGraph, shadow,
               handles, calls, connection>>

(***************************************************************************)
(* Records handed to the extractors                                        *)
(***************************************************************************)
EmptyObj == Obj(NoProps)
Chr(c) == Str(<<c>>)

\* the date-only string 1970-01-0d
Day(d) == Str(IsoDayPrefix \o <<"0", DigitChar(d)>>)

TextRecords ==
    { With(With(With(With(With(EmptyObj, "text", t), "content", c), "cnt:chars", k),
           "body", b), "value", v) :
        t \in {Undefined, Chr("t"), Str(<<>>)},
        c \in {Undefined, Chr("c")},
        k \in {Undefined, Chr("k")},
        b \in {Undefined, Null, Chr("b"), Str(<<>>), Num(5),
               Obj([value |-> Chr("o")]), Obj([type |-> Chr("T")]),
               Arr(<<>>), Arr(<<Obj([value |-> Chr("r")])>>),
               Arr(<<Null, Obj([type |-> Chr("T")]), Obj([value |-> Chr("r")]),
                     Obj([value |-> Chr("s")])>>)},
        v \in {Undefined, Chr("v")} }

cXywh == <<"x", "y", "w", "h", "=">>
cPixel == <<"p", "i", "x", "e", "l", ":">>
cPercent == <<"p", "e", "r", "c", "e", "n", "t", ":">>

Join(ns) ==
    NatToChars(ns[1]) \o <<",">> \o NatToChars(ns[2]) \o <<",">>
        \o NatToChars(ns[3]) \o <<",">> \o NatToChars(ns[4])

\* a selector value that holds the rectangle ns
RectSelector(prefix, unit, ns, suffix) == prefix \o cXywh \o unit \o Join(ns) \o suffix

Prefixes == {<<>>, <<"c", "#">>}
Units == {<<>>, cPixel}
Quads == {<<10, 0, 120, 45>>}
Suffixes == {<<>>, <<".", "5">>}

MatchingSelectors ==
    { RectSelector(p, u, ns, x) :
        p \in Prefixes, u \in Units, ns \in Quads, x \in Suffixes }

\* selector values that hold no rectangle
MalformedSelectors ==
    { cXywh \o cPercent \o Join(<<5, 6, 7, 8>>),
      cXywh \o <<"5", ",", "6", ",", "7">>,
      cXywh \o <<"5", ",", "6", ",", "7", ",">>,
      cXywh \o <<"-", "5", ",", "6", ",", "7", ",", "8">>,
      cXywh \o <<"5", ".", "5", ",", "6", ",", "7", ",", "8">>,
      <<"5", ",", "6", ",", "7", ",", "8">> }

SelectorValues ==
    {Undefined, Str(<<>>), Num(5)}
        \cup { Str(s) : s \in MatchingSelectors \cup MalformedSelectors }

\* the selector under target, under on, or under on behind a target without one
Annotated(line, value) ==
    { With(line, "target", Obj([selector |-> With(EmptyObj, "value", value)])),
      With(line, "on", Obj([selector |-> With(EmptyObj, "value", value)])),
      With(With(line, "target", Obj([source |-> Chr("c")])),
           "on", Obj([selector |-> With(EmptyObj, "value", value)])) }

FlatRecords ==
    { With(With(With(With(With(With(EmptyObj, "x", x), "y", y), "width", wd), "w", w),
           "height", ht), "h", h) :
        x \in {Undefined, Num(1), Num(-1)},
        y \in {Undefined, Num(2)},
        wd \in {Undefined, Num(3)},
        w \in {Undefined, Num(30)},
        ht \in {Undefined, Null, Num(4)},
        h \in {Undefined, Num(40)} }

BoundingRecords ==
    FlatRecords \cup UNION { Annotated(f, v) : f \in FlatRecords, v \in SelectorValues }

\* records stamped under the provenance object and under the top-level keys, with
\* date strings, a string that is no date, numbers and a boolean
TimestampRecords ==
    { With(With(With(With(With(EmptyObj, "__rerum", r), "createdAt", c), "modified", m),
           "timestamp", t), "isOverwritten", o) :
        r \in {Undefined, Obj([createdAt |-> Day(2)]),
               Obj([createdAt |-> Day(1), isOverwritten |-> Day(2)]),
               Obj([isOverwritten |-> Str(<<>>)])},
        c \in {Undefined, Day(1), Str(<<"?">>), Bool(TRUE)},
        m \in {Undefined, Day(3)},
        t \in {Undefined, Num(5)},
        o \in {Undefined, Day(4), Str(<<"?">>)} }

ExtractInputs == TextRecords \cup BoundingRecords \cup TimestampRecords

(***************************************************************************)
(* Direct calls of the extractors on one record                            *)
(***************************************************************************)
InitExtract ==
    /\ Constructed
    /\ arg \in ExtractInputs
    /\ result = NotCalled

CallGetLineText ==
    /\ result = NotCalled
    /\ result' = [fn |-> "getLineText", value |-> getLineText(arg)]
    /\ UNCHANGED <<component, arg>>

CallGetLineBounding ==
    /\ result = NotCalled
    /\ result' = [fn |-> "getLineBounding", value |-> getLineBounding(arg)]
    /\ UNCHANGED <<component, arg>>

CallGetTimestamp ==
    /\ result = NotCalled
    /\ result' = [fn |-> "getTimestamp", value |-> Num(getTimestamp(arg))]
    /\ UNCHANGED <<component, arg>>

NextExtract == CallGetLineText \/ CallGetLineBounding \/ CallGetTimestamp

SpecExtract == InitExtract /\ [][NextExtract]_vars


(***************************************************************************)
(* Direct calls of the sort on a fetched collection                        *)
(***************************************************************************)
MaxItems == 3

\* version records: two stamped on day 2, two without a usable stamp, one
\* created on day 1 and overwritten on day 3
Versions ==
    { Obj([id |-> Chr("a"), createdAt |-> Day(2)]),
      Obj([id |-> Chr("b"),
           __rerum |-> Obj([createdAt |-> Day(2), isOverwritten |-> Str(<<>>)])]),
      Obj([id |-> Chr("c")]),
      Obj([id |-> Chr("d"), modified |-> Str(<<"?">>)]),
      Obj([id |-> Chr("e"), created |-> Day(1), isOverwritten |-> Day(3)]) }

SeqsUpTo(S, n) == UNION { [1..k -> S] : k \in 0..n }

InitSort ==
    /\ Constructed
    /\ arg \in SeqsUpTo(Versions, MaxItems)
    /\ result = NotCalled

CallSort ==
    /\ result = NotCalled
    /\ result' = [fn |-> "sort", value |-> sortByTimestamp(arg)]
    /\ UNCHANGED <<component, arg>>

NextSort == CallSort

SpecSort == InitSort /\ [][NextSort]_vars

\* C5: the sort orders the records by resolved timestamp, newest first, keeps
\* the input order among records with equal resolved timestamps (0 = unknown
\* included), and returns a permutation of its input.
C5_SortStableDescending ==
    result.fn = "sort" =>
        LET out == result.value IN
        /\ Len(out) = Len(arg)
        /\ \A i \in 1..(Len(out) - 1) : getTimestamp(out[i]) >= getTimestamp(out[i + 1])
        /\ \A r \in Versions :
              SelectSeq(out, LAMBDA v : getTimestamp(v) = getTimestamp(r))
                  = SelectSeq(arg, LAMBDA v : getTimestamp(v) = getTimestamp(r))

\* a sort that moved records and had two different records with equal timestamps
C5_Witness ==
    /\ result.fn = "sort"
    /\ result.value # arg
    /\ \E i, j \in 1..Len(arg) :
          /\ i < j
          /\ arg[i] # arg[j]
          /\ getTimestamp(arg[i]) = getTimestamp(arg[j])

(***************************************************************************)
(* Direct calls of render on a history                                     *)
(***************************************************************************)
BoxSelector(ns) == Obj([selector |-> Obj([value |-> Str(cXywh \o Join(ns))])])

\* lines and versions with the same box in both encodings, another box, no box,
\* no identifier, and a numeric identifier
Rendered ==
    { Obj(("@id" :> Str(<<"h", "/", "1">>)) @@ [target |-> BoxSelector(<<5, 6, 7, 8>>)]),
      Obj([id |-> Chr("2"), x |-> Num(5), y |-> Num(6), width |-> Num(7),
           height |-> Num(8)]),
      Obj([_id |-> Chr("3"), x |-> Num(1), y |-> Num(1), w |-> Num(1), h |-> Num(1)]),
      Obj([text |-> Chr("t")]),
      Obj([id |-> Chr("5"), text |-> Chr("u")]),
      Obj([id |-> Num(42), text |-> Chr("n")]) }

InitRender ==
    /\ currentLine \in {Null} \cup Rendered
    /\ historyData \in SeqsUpTo(Rendered, MaxItems)
    /\ rerumHistoryData = 0
    /\ historyGraph = Null
    /\ shadow = Blank
    /\ handles = <<>>
    /\ calls = <<>>
    /\ connection = "constructed"
    /\ arg = Undefined
    /\ result = NotCalled

\* innerHTML is assigned last, and not at all when render throws
AssignInnerHTML(html) ==
    IF html.type = "throw" THEN UNCHANGED shadow ELSE shadow' = html

Returned(html) == IF html.type = "throw" THEN html ELSE Undefined

CallRender ==
    /\ result = NotCalled
    /\ AssignInnerHTML(render(currentLine, historyData))
    /\ result' = [fn |-> "render", value |-> Returned(render(currentLine, historyData))]
    /\ UNCHANGED <<currentLine, historyData, rerumHistoryData, historyGraph,
                   handles, calls, connection, arg>>

NextRender == CallRender

SpecRender == InitRender /\ [][NextRender]_vars

C7_NewestNeverFlagged ==
    shadow.type = "history-list" => ~shadow.items[1].changed

\* a rendered history whose newest entry has a box that differs from the next one
C7_Witness ==
    /\ shadow.type = "history-list"
    /\ Len(shadow.items) >= 2
    /\ Truthy(shadow.items[1].bounding)
    /\ boundingChanged(shadow.items[1].bounding, shadow.items[2].bounding)

\* the identifier a record carries: the first present of @id, id, _id
CarriedId(item) ==
    IF Get(item, "@id").type \notin {"undefined", "null"} THEN Get(item, "@id")
    ELSE IF Get(item, "id").type \notin {"undefined", "null"} THEN Get(item, "id")
    ELSE Get(item, "_id")

\* version-<k>
PositionalLabel(k) == Str(<<"v", "e", "r", "s", "i", "o", "n", "-">> \o NatToChars(k))

MaxCalls == 2

\* event payloads: two lines with a URI (one with a box), a line without one,
\* and a line whose identifier is a number
LineA ==
    Obj(("@id" :> Chr("A")) @@
        [text |-> Chr("a"), x |-> Num(1), y |-> Num(2), width |-> Num(3),
         height |-> Num(4)])
LineB == Obj([uri |-> Chr("B"), id |-> Chr("B"), text |-> Chr("b")])
LineP == Obj([text |-> Chr("p")])
LineN == Obj([id |-> Num(42), text |-> Chr("n")])
Lines == {LineA, LineB, LineP, LineN}

V(id, day) == Obj([id |-> Chr(id), text |-> Chr(id), createdAt |-> Day(day)])

\* what a fetch may deliver through getItems(): no, one or two versions
FetchResults == {<<>>, <<V("v", 1)>>, <<V("v", 1), V("w", 2)>>}

\* lineData.uri || lineData['@id']
uriOf(lineData) == OrElse(Get(lineData, "uri"), Get(lineData, "@id"))

\* as AbortCurrent, with an instance whose fetch is still pending left alone
AbortCurrentSettled(hs, cur) ==
    IF cur = 0 \/ hs[cur].state = "pending" THEN hs ELSE [hs EXCEPT ![cur].aborted = TRUE]

\* this.rerumHistoryData.abort(), when there is an instance
AbortCurrent(hs, cur) ==
    IF cur = 0 THEN hs ELSE [hs EXCEPT ![cur].aborted = TRUE]

\* new RerumHistoryData(uri)
NewHandle(uri) == [uri |-> uri, state |-> "pending", aborted |-> FALSE, items |-> <<>>]

\* the catch blocks and the else branch: the current line alone
Fallback(lineData) == [historyData |-> <<lineData>>, historyGraph |-> Null]

\* rerumHistoryData.getGraph()
Graph(cur) == [type |-> "graph", of |-> cur]

\* lines 86-100, once the awaited fetch of a call has settled in `state`: the
\* items are read from the instance the field holds now
AfterFetch(hs, cur, state, lineData) ==
    IF state = "resolved" /\ cur # 0
    THEN [historyData |-> sortByTimestamp(hs[cur].items), historyGraph |-> Graph(cur)]
    ELSE Fallback(lineData)

\* lines 108-133: `uri` is not in scope there, so the constructor call throws a
\* ReferenceError and the catch block runs, whatever the first block left
SecondTry(fields, lineData) == Fallback(lineData)

InFlight == { c \in 1..Len(calls) : calls[c].pc \in {"fetching", "rendering"} }
Pending == { c \in 1..Len(calls) : calls[c].pc = "fetching" }

Init ==
    /\ Constructed
    /\ arg = Undefined
    /\ result = NotCalled

\* connectedCallback: render() and setupEventListeners()
Connect ==
    /\ connection = "constructed"
    /\ connection' = "connected"
    /\ shadow' = render(currentLine, historyData)
    /\ UNCHANGED <<currentLine, historyData, rerumHistoryData, historyGraph,
                   handles, calls, arg, result>>

\* disconnectedCallback; the tpen-set-line listener stays registered
Disconnect ==
    /\ connection = "connected"
    /\ connection' = "disconnected"
    /\ handles' = AbortCurrent(handles, rerumHistoryData)
    /\ rerumHistoryData' = 0
    /\ UNCHANGED <<currentLine, historyData, historyGraph, shadow, calls, arg, result>>

\* a tpen-set-line event without detail: handleLineChange returns at once
SetNoLine ==
    /\ connection # "constructed"
    /\ UNCHANGED vars

NewCall(lineData, pc, handle) ==
    [line |-> lineData, pc |-> pc, handle |-> handle,
     pendingThen |-> Pending, inFlightThen |-> InFlight]

\* a tpen-set-line event for a line with a URI: handleLineChange up to the
\* await of fetch() at line 84
SetLineFetch(lineData) ==
    /\ connection # "constructed"
    /\ Len(calls) < MaxCalls
    /\ Truthy(uriOf(lineData))
    /\ currentLine' = lineData
    /\ handles' = Append(AbortCurrent(handles, rerumHistoryData),
                         NewHandle(uriOf(lineData)))
    /\ rerumHistoryData' = Len(handles) + 1
    /\ calls' = Append(calls, NewCall(lineData, "fetching", Len(handles) + 1))
    /\ UNCHANGED <<historyData, historyGraph, shadow, connection, arg, result>>

\* a tpen-set-line event for a line without a URI: handleLineChange runs through
\* fetchLineHistory (lines 101-133) up to the await at line 63
SetLineNoFetch(lineData) ==
    /\ connection # "constructed"
    /\ Len(calls) < MaxCalls
    /\ ~Truthy(uriOf(lineData))
    /\ currentLine' = lineData
    /\ handles' = AbortCurrent(handles, rerumHistoryData)
    /\ historyData' = SecondTry(Fallback(lineData), lineData).historyData
    /\ historyGraph' = SecondTry(Fallback(lineData), lineData).historyGraph
    /\ calls' = Append(calls, NewCall(lineData, "rendering", 0))
    /\ UNCHANGED <<rerumHistoryData, shadow, connection, arg, result>>

\* the history service answers the fetch of instance h
Resolve(h, items) ==
    /\ handles[h].state = "pending"
    /\ handles' = [handles EXCEPT ![h].state = "resolved", ![h].items = items]
    /\ UNCHANGED <<currentLine, historyData, rerumHistoryData, historyGraph, shadow,
                   calls, connection, arg, result>>

\* the fetch of instance h fails
Reject(h) ==
    /\ handles[h].state = "pending"
    /\ handles' = [handles EXCEPT ![h].state = "rejected"]
    /\ UNCHANGED <<currentLine, historyData, rerumHistoryData, historyGraph, shadow,
                   calls, connection, arg, result>>

\* call c resumes after its awaited fetch has settled: lines 86-133, run to the end
Resume(c) ==
    /\ calls[c].pc = "fetching"
    /\ handles[calls[c].handle].state # "pending"
    /\ handles' = AbortCurrent(handles, rerumHistoryData)
    /\ historyData' =
          SecondTry(AfterFetch(handles, rerumHistoryData,
                               handles[calls[c].handle].state, calls[c].line),
                    calls[c].line).historyData
    /\ historyGraph' =
          SecondTry(AfterFetch(handles, rerumHistoryData,
                               handles[calls[c].handle].state, calls[c].line),
                    calls[c].line).historyGraph
    /\ calls' = [calls EXCEPT ![c].pc = "rendering"]
    /\ UNCHANGED <<currentLine, rerumHistoryData, shadow, connection, arg, result>>

\* where handleLineChange ends: returned after render(), or rejected with what
\* render() threw
Ended(html) == IF html.type = "throw" THEN "threw" ELSE "done"

\* call c resumes after `await this.fetchLineHistory(lineData)`: render()
Render(c) ==
    /\ calls[c].pc = "rendering"
    /\ AssignInnerHTML(render(currentLine, historyData))
    /\ calls' = [calls EXCEPT ![c].pc = Ended(render(currentLine, historyData))]
    /\ UNCHANGED <<currentLine, historyData, rerumHistoryData, historyGraph,
                   handles, connection, arg, result>>

Next ==
    \/ Connect
    \/ Disconnect
    \/ SetNoLine
    \/ \E lineData \in Lines : SetLineFetch(lineData)
    \/ \E lineData \in Lines : SetLineNoFetch(lineData)
    \/ \E h \in 1..Len(handles), items \in FetchResults : Resolve(h, items)
    \/ \E h \in 1..Len(handles) : Reject(h)
    \/ \E c \in 1..Len(calls) : Resume(c)
    \/ \E c \in 1..Len(calls) : Render(c)

Spec == Init /\ [][Next]_vars

(***************************************************************************)
(* The element with the other events the host dispatches                   *)
(***************************************************************************)
\* the events the README documents as listened to
OtherEvents == {"line-selected", "line-updated"}

\* TPEN.eventDispatcher dispatches an event of another type than tpen-set-line:
\* setupEventListeners registered no listener for it, so no code of the element
\* runs; arg keeps the event dispatched last
DispatchOther(type, detail) ==
    /\ arg' = [event |-> type, detail |-> detail]
    /\ UNCHANGED <<component, result>>

NextEvents ==
    \/ Next
    \/ \E type \in OtherEvents, detail \in {LineA, LineP} : DispatchOther(type, detail)

SpecEvents == Init /\ [][NextEvents]_vars

\* C13: when the host dispatches a line-selected or a line-updated event that
\* carries a record to a connected element, that record becomes currentLine and
\* a new handleLineChange cycle starts.
C13_BothNotificationsRestart ==
    [][arg' # arg /\ connection = "connected" =>
          /\ currentLine' = arg'.detail
          /\ Len(calls') = Len(calls) + 1]_vars

(***************************************************************************)
(* The element under an event loop that runs every continuation that is    *)
(* ready, with a history service that settles every fetch                  *)
(***************************************************************************)
Settle == \E h \in 1..Len(handles) : Reject(h) \/ \E items \in FetchResults : Resolve(h, items)

SpecProgress ==
    /\ Init
    /\ [][Next]_vars
    /\ WF_vars(Settle)
    /\ WF_vars(\E c \in 1..Len(calls) : Resume(c))
    /\ WF_vars(\E c \in 1..Len(calls) : Render(c))

\* C14: every selection that carries a record is eventually followed by the
\* render that ends its handleLineChange, given that its fetch settles.
C14_SelectionLeadsToReady ==
    \A c \in 1..MaxCalls :
        (Len(calls) >= c) ~> (Len(calls) >= c /\ calls[c].pc = "done")

(***************************************************************************)
(* Properties of the pipeline                                              *)
(***************************************************************************)
\* the history of call b's own line: its current line alone, or what its own
\* fetch delivered, newest first
BelongsTo(history, b) ==
    \/ history = <<calls[b].line>>
    \/ /\ calls[b].handle # 0
       /\ handles[calls[b].handle].state = "resolved"
       /\ history = sortByTimestamp(handles[calls[b].handle].items)

\* C1: when handleLineChange(B) was invoked while the fetch of an earlier
\* handleLineChange(A) was pending, then once both fetches have settled and both
\* calls have resumed, historyData is the history of B, the current line.
C1_LastSelectionWins ==
    \A b \in 1..Len(calls) : \A a \in calls[b].pendingThen :
        /\ b = Len(calls)
        /\ calls[b].handle # 0
        /\ calls[a].pc # "fetching"
        /\ calls[b].pc # "fetching"
        => BelongsTo(historyData, b)

\* no other selection was in flight when call c was made, and none was made
\* while c was in flight
Alone(c) ==
    /\ calls[c].inFlightThen = {}
    /\ \A d \in 1..Len(calls) : c \notin calls[d].inFlightThen

\* the records of the rendered history, in order
RenderedRecords ==
    IF shadow.type = "history-list"
    THEN [i \in 1..Len(shadow.items) |-> shadow.items[i].item]
    ELSE <<>>

Occurrences(seq, r) == Cardinality({ i \in 1..Len(seq) : seq[i] = r })

SameRecords(s1, s2) ==
    /\ Len(s1) = Len(s2)
    /\ \A i \in 1..Len(s1) : Occurrences(s1, s1[i]) = Occurrences(s2, s1[i])

\* C2: when the fetch for the selected line succeeded with n >= 1 records and
\* no other selection intervened, the history the call rendered holds exactly
\* those n records.
C2_NoRecordsDropped ==
    \A c \in 1..Len(calls) :
        /\ c = Len(calls)
        /\ Alone(c)
        /\ connection = "connected"
        /\ calls[c].handle # 0
        /\ handles[calls[c].handle].state = "resolved"
        /\ handles[calls[c].handle].items # <<>>
        /\ calls[c].pc = "done"
        => SameRecords(RenderedRecords, handles[calls[c].handle].items)

\* C3: when the fetch for the selected line failed, then once its call has ended
\* the history is the selected line alone, there is no graph, and the rendered
\* history is that one entry, without a CHANGED indicator.
C3_FetchFailureFallback ==
    \A c \in 1..Len(calls) :
        /\ c = Len(calls)
        /\ calls[c].handle # 0
        /\ handles[calls[c].handle].state = "rejected"
        /\ calls[c].pc = "done"
        => /\ historyData = <<calls[c].line>>
           /\ historyGraph = Null
           /\ RenderedRecords = <<calls[c].line>>
           /\ ~shadow.items[1].changed

\* C4: handleLineChange never throws or rejects, whatever the payload and the
\* outcome of the fetch.
C4_HandlerNeverFails ==
    \A c \in 1..Len(calls) : calls[c].pc # "threw"

(***************************************************************************)
(* Properties of the extractors                                            *)
(***************************************************************************)
\* the text an annotation body offers: a string, an object's value, or the first
\* array entry that has a value
BodyCandidate(body) ==
    CASE body.type = "string" -> IF Truthy(body) THEN body ELSE Undefined
      [] body.type = "object" ->
            IF Truthy(Get(body, "value")) THEN Get(body, "value") ELSE Undefined
      [] body.type = "array" ->
            IF \E i \in 1..Len(body.items) : Truthy(Get(body.items[i], "value"))
            THEN Get(body.items[CHOOSE i \in 1..Len(body.items) :
                        /\ Truthy(Get(body.items[i], "value"))
                        /\ \A j \in 1..(i - 1) : ~Truthy(Get(body.items[j], "value"))],
                     "value")
            ELSE Undefined
      [] OTHER -> Undefined

\* the first present candidate in the documented order
DocumentedText(line) ==
    LET candidates == <<Get(line, "text"), Get(line, "content"), Get(line, "cnt:chars"),
                        BodyCandidate(Get(line, "body")), Get(line, "value")>>
        present == SelectSeq(candidates, LAMBDA c : c.type \notin {"undefined", "null"})
    IN IF present = <<>> THEN Str(<<>>) ELSE present[1]

\* C8: getLineText returns the first present candidate in the order text, content,
\* cnt:chars, body, value, and the empty string when none is present; a record
\* with both text and body yields its text.
C8_TextPriority ==
    result.fn = "getLineText" => result.value = DocumentedText(arg)

\* the annotation object the selector is read from: target, or on when there is
\* no target
AnnotationOf(line) ==
    IF Get(line, "target").type \in {"undefined", "null"}
    THEN Get(line, "on") ELSE Get(line, "target")

SelectorOf(line) == Get(Get(AnnotationOf(line), "selector"), "value")

HoldsRectangle(value) ==
    value.type = "string" /\ value.chars \in MatchingSelectors

AllFlatDefined(line) ==
    /\ "x" \in DOMAIN line.props
    /\ "y" \in DOMAIN line.props
    /\ {"width", "w"} \cap DOMAIN line.props # {}
    /\ {"height", "h"} \cap DOMAIN line.props # {}

FirstOf(line, k1, k2) ==
    IF k1 \in DOMAIN line.props /\ line.props[k1] # Null THEN line.props[k1]
    ELSE IF k2 \in DOMAIN line.props THEN line.props[k2]
    ELSE Undefined

FlatRectangleOf(line) ==
    Obj([x |-> line.props["x"], y |-> line.props["y"],
         width |-> FirstOf(line, "width", "w"),
         height |-> FirstOf(line, "height", "h")])

\* C9: when the selector value of target/on holds a rectangle, getLineBounding
\* returns exactly its four integers, whatever the flat fields are; otherwise it
\* returns the flat rectangle, made of the flat fields alone, when x, y, width|w
\* and height|h are all defined, and null when they are not.
C9_BoundingPrecedence ==
    result.fn = "getLineBounding" =>
        /\ \A p \in Prefixes, u \in Units, ns \in Quads, x \in Suffixes :
              SelectorOf(arg) = Str(RectSelector(p, u, ns, x)) =>
                  result.value = Obj([x |-> Num(ns[1]), y |-> Num(ns[2]),
                                      width |-> Num(ns[3]), height |-> Num(ns[4])])
        /\ ~HoldsRectangle(SelectorOf(arg)) =>
              result.value = IF AllFlatDefined(arg) THEN FlatRectangleOf(arg) ELSE Null

NonNegativeNumber(v) == v.type = "number" /\ v.num >= 0

\* C10: a selector value that is present and holds no rectangle yields null, and
\* every rectangle returned has four non-negative numeric components.
C10_MalformedYieldsNull ==
    result.fn = "getLineBounding" =>
        /\ SelectorOf(arg).type = "string" /\ ~HoldsRectangle(SelectorOf(arg)) =>
              result.value = Null
        /\ result.value.type = "object" =>
              \A k \in {"x", "y", "width", "height"} :
                  NonNegativeNumber(Get(result.value, k))

\* the instants a record offers: every candidate field that holds a number or a
\* string that parses as a date
Candidates(line) ==
    <<Get(Get(line, "__rerum"), "createdAt"), Get(line, "createdAt"),
      Get(line, "modified"), Get(line, "created"), Get(line, "timestamp"),
      Get(Get(line, "__rerum"), "isOverwritten"), Get(line, "isOverwritten")>>

Parses(v) ==
    \/ v.type = "number"
    \/ v.type = "string" /\ DateGetTime(v.chars) # NaN

Instant(v) == IF v.type = "number" THEN v.num ELSE DateGetTime(v.chars).num

DocumentedTimestamp(line) ==
    LET parsed == { Instant(Candidates(line)[i]) :
                      i \in { j \in 1..7 : Parses(Candidates(line)[j]) } }
    IN IF parsed = {} THEN 0 ELSE CHOOSE t \in parsed : \A u \in parsed : u <= t

\* C11: getTimestamp returns the maximum over all present and parseable
\* candidates (provenance createdAt, createdAt, modified, created, timestamp,
\* isOverwritten); a candidate that does not parse hides no other; the result
\* is 0 when no candidate parses.
C11_TimestampMaximum ==
    result.fn = "getTimestamp" => result.value = Num(DocumentedTimestamp(arg))

\* C12: each extractor returns a value of its declared type (string; rectangle
\* or null; integer) for every record, without raising.
C12_ExtractionTotal ==
    /\ result.fn = "getLineText" => result.value.type = "string"
    /\ result.fn = "getLineBounding" => result.value.type \in {"object", "null"}
    /\ result.fn = "getTimestamp" => result.value.type = "number"

(***************************************************************************)
(* Properties of the fetch handles                                         *)
(***************************************************************************)
\* C15: every instance created before the latest one has had abort() called on
\* it, whatever became of its fetch, so at most one instance is not aborted.
C15_ScopedFetchHandle ==
    \A h \in 1..Len(handles) : h < Len(handles) => handles[h].aborted

\* a new fetch started while the previous one was still pending
C15_Witness ==
    /\ Len(handles) = 2
    /\ handles[1].state = "pending"
    /\ handles[1].aborted
    /\ ~handles[2].aborted

\* C17: the continuation of a handler does not call abort() on an instance that
\* another, later call created.
C17_SupersededNeverCancels ==
    [][\A c \in 1..Len(calls) :
           calls[c].pc = "fetching" /\ calls'[c].pc = "rendering" =>
               \A h \in 1..Len(handles) :
                   h > calls[c].handle /\ ~handles[h].aborted => ~handles'[h].aborted]_vars

\* C18: once disconnectedCallback has run, the element holds no instance and
\* every instance it created is aborted.
C18_DisconnectReleases ==
    connection = "disconnected" =>
        /\ rerumHistoryData = 0
        /\ \A h \in 1..Len(handles) : handles[h].aborted

====
